---- MODULE Spec2Model ----
(***************************************************************************)
(* Model of unified_data_generator.py: the NPI reference-list cursor       *)
(* (NPISequence, fill_npi), the identifier pool generator                  *)
(* (generate_unique_prefixed_numbers), and the duplicate selection and     *)
(* record generation of main.                                              *)
(***************************************************************************)
EXTENDS Integers, Sequences, FiniteSets, TLC

(***************************************************************************)
(* Bounds of the model.                                                    *)
(***************************************************************************)
\* longest reference list (rows of reference_npi_list.csv)
MaxPool == 3
\* largest start argument passed to fill_npi / NPISequence
MaxStart == 2
\* largest end argument passed to fill_npi / NPISequence (exceeds MaxPool)
MaxEnd == 4
\* calls made on the cursor in one behaviour
MaxCalls == 5
\* largest num_to_generate passed with a one-digit suffix (9 suffixes exist)
MaxCount == 10
\* largest num_to_generate below the limit passed with a two-digit suffix
MaxWideCount == 2
\* largest hash seed of a process
MaxHashSeed == 2
\* TOTAL_ROWS (line 216), scaled down from 1,000,000
TOTAL_ROWS == 3
\* the count of NPIs main asks for (line 253), scaled down from 1,000,000
REFERENCE_NPI_COUNT == 3
\* DUPLICATE_RATE (line 217) in percent, scaled up from 2 so that rows are selected
DUPLICATE_RATE_PCT == 67
\* FUZZY_DUPLICATE_RATE (line 218) in percent, scaled up from 2
FUZZY_DUPLICATE_RATE_PCT == 67
\* pairs the loop of line 280 runs over in one behaviour
MaxPairs == 2
\* range(10) of lines 285 and 292
MaxAttempts == 10
\* the fuzz.ratio threshold of lines 287 and 294
Threshold == 90
\* the seed of lines 247-249
SEED == 42
\* days between the earliest and the latest date a run is started on
MaxDayOffset == 1
\* longest num_str passed to luhn_checksum
MaxLuhnLen == 3

VARIABLES
    npi_file,   \* the NPI column of ./output/reference_npi_list.csv, in file order
    npi_seq,    \* the module global npi_seq: None or an NPISequence object
    ncalls,     \* history: number of calls made on the cursor so far
    uniform,    \* history: all calls so far passed the same (start, end)
    last        \* history: the last call: its arguments, the global before it, its outcome

cursorVars == <<npi_file, npi_seq, ncalls, uniform, last>>

VARIABLES
    gen_pc,     \* generate_unique_prefixed_numbers: "called", "loop", "returned", "ValueError"
    gen_args,   \* its arguments num_to_generate, prefix, length
    hashes,     \* its local set hashes
    gen_out,    \* the list it returned
    drawn,      \* history: a suffix has been drawn (line 98 was executed)
    hash_seed   \* the interpreter's hash seed of this process (fixes set iteration order)

genVars == <<gen_pc, gen_args, hashes, gen_out, drawn, hash_seed>>

VARIABLES
    pc,             \* main: the statement reached
    fuzzy_indices,  \* main's local fuzzy_indices
    donor_indices,  \* main's local donor_indices (rebound on line 305)
    dup_indices,    \* main's local dup_indices
    field,          \* main's local field (line 310)
    fields,         \* history: the field chosen for each element of dup_indices
    records         \* main's local records

mainVars == <<pc, fuzzy_indices, donor_indices, dup_indices, field, fields, records>>

VARIABLES
    fz_pc,       \* lines 280-297: "pair", "name_loop", "email_loop", "pair_done"
    base_name,   \* main's local base_name
    new_name,    \* main's local new_name
    base_email,  \* main's local base_email
    new_email,   \* main's local new_email
    attempt,     \* iterations of the current for _ in range(10) loop that have run
    pairs        \* iterations of the loop of line 280 that have begun

fuzzyVars == <<fz_pc, base_name, new_name, base_email, new_email, attempt, pairs>>

VARIABLES
    runs         \* two processes running main: for each, its position, the state of
                 \* its seeded generators, its environment and the files it wrote

VARIABLES
    luhn_pc,     \* luhn_checksum: "called", "loop", "returned"
    num_str,     \* its argument
    luhn_i,      \* the index i of its loop (0-based): digits consumed so far
    total,       \* its local total
    luhn_out     \* the string it returned

luhnVars == <<luhn_pc, num_str, luhn_i, total, luhn_out>>

vars == <<cursorVars, genVars, mainVars, fuzzyVars, runs, luhnVars>>

\* the variables other than the cursor's, the generator's, main's, the fuzzy loop's
notCursor == <<genVars, mainVars, fuzzyVars, runs, luhnVars>>
notGen == <<cursorVars, mainVars, fuzzyVars, runs, luhnVars>>
notMain == <<genVars, fuzzyVars, runs, luhnVars>>
notFuzzy == <<cursorVars, genVars, mainVars, runs, luhnVars>>
notRuns == <<cursorVars, genVars, mainVars, fuzzyVars, luhnVars>>
notLuhn == <<cursorVars, genVars, mainVars, fuzzyVars, runs>>

(***************************************************************************)
(* Python values.                                                          *)
(***************************************************************************)
\* the value None of the global npi_seq
None == [cls |-> "NoneType"]
\* the default end=None of fill_npi and NPISequence (ends passed are >= 0)
NoEnd == -1

\* the i-th identifier of the reference list (1-based); identifiers of a
\* pool are pairwise distinct (generate_unique_prefixed_numbers builds a set)
Identifier(i) == 2000000000 + i

Returned(v) == [exc |-> "", val |-> v]
Raised(e) == [exc |-> e, val |-> 0]
NoCall == [start |-> 0, end |-> NoEnd, before |-> None, out |-> Raised("no call")]

(***************************************************************************)
(* class NPISequence                                                       *)
(***************************************************************************)
\* NPISequence.__init__(csv_path, start, end): reads the NPI column, clamps end
NPISequence(csv, start, end) ==
    LET npi_list == csv
        e == IF end = NoEnd \/ end > Len(npi_list) THEN Len(npi_list) ELSE end
    IN [cls |-> "NPISequence", npi_list |-> npi_list, start |-> start, end |-> e,
        index |-> start, total |-> e - start]

\* NPISequence.next with the bound test off by one (index > end)
NPISequence_next_OffByOne(self) ==
    IF self.index > self.end \/ self.index >= Len(self.npi_list)
    THEN [self |-> self, out |-> Raised("IndexError")]
    ELSE [self |-> [self EXCEPT !.index = self.index + 1],
          out |-> Returned(self.npi_list[self.index + 1])]

\* NPISequence.next(self): the object after the call and the call's outcome
\* (Python lists are 0-based: npi_list[index] is the element index+1 here)
NPISequence_next(self) ==
    IF self.index >= self.end
    THEN [self |-> self, out |-> Raised("IndexError")]
    ELSE [self |-> [self EXCEPT !.index = self.index + 1],
          out |-> Returned(self.npi_list[self.index + 1])]

(***************************************************************************)
(* fill_npi                                                                *)
(***************************************************************************)
\* the rebuild condition without the comparison of start
MustRebuild_IgnoresStart(seq, start, end) ==
    \/ seq = None
    \/ seq.end # (IF end # NoEnd THEN end ELSE Len(seq.npi_list))

\* the condition of line 53 under which the global cursor is rebuilt
MustRebuild(seq, start, end) ==
    \/ seq = None
    \/ seq.start # start
    \/ seq.end # (IF end # NoEnd THEN end ELSE Len(seq.npi_list))

\* lines 53-55: the global after the call and the call's outcome
FillNpi(seq, csv, start, end) ==
    NPISequence_next(IF MustRebuild(seq, start, end)
                     THEN NPISequence(csv, start, end)
                     ELSE seq)

\* fill_npi(start, end): rebuilds the global if needed, then takes the next NPI
fill_npi(start, end) ==
    LET r == FillNpi(npi_seq, npi_file, start, end)
    IN /\ ncalls < MaxCalls
       /\ npi_seq' = r.self
       /\ ncalls' = ncalls + 1
       /\ uniform' = (uniform /\ (ncalls = 0 \/ (last.start = start /\ last.end = end)))
       /\ last' = [start |-> start, end |-> end, before |-> npi_seq, out |-> r.out]
       /\ UNCHANGED npi_file

StartArgs == 0..MaxStart
EndArgs == {NoEnd} \cup 0..MaxEnd

\* the reference list main wrote before the first fill_npi call
Pools == { [i \in 1..n |-> Identifier(i)] : n \in 0..MaxPool }

\* the generator is not running
GenIdle ==
    /\ gen_pc = "idle"
    /\ gen_args = [num_to_generate |-> 0, prefix |-> 0, length |-> 0]
    /\ hashes = {}
    /\ gen_out = <<>>
    /\ drawn = FALSE
    /\ hash_seed = 0

\* main is not running
MainIdle ==
    /\ pc = "idle"
    /\ fuzzy_indices = <<>>
    /\ donor_indices = <<>>
    /\ dup_indices = <<>>
    /\ field = ""
    /\ fields = <<>>
    /\ records = <<>>

\* the fuzzy loop is not running
FuzzyIdle ==
    /\ fz_pc = "idle"
    /\ base_name = <<>>
    /\ new_name = <<>>
    /\ base_email = <<>>
    /\ new_email = <<>>
    /\ attempt = 0
    /\ pairs = 0

\* no process is running main
RunsIdle == runs = <<>>

\* luhn_checksum is not running
LuhnIdle ==
    /\ luhn_pc = "idle"
    /\ num_str = <<>>
    /\ luhn_i = 0
    /\ total = 0
    /\ luhn_out = <<>>

CursorInit ==
    /\ GenIdle
    /\ MainIdle
    /\ FuzzyIdle
    /\ RunsIdle
    /\ LuhnIdle
    /\ npi_file \in Pools
    /\ npi_seq = None
    /\ ncalls = 0
    /\ uniform = TRUE
    /\ last = NoCall

CallFillNpi ==
    /\ \E s \in StartArgs, e \in EndArgs : fill_npi(s, e)
    /\ UNCHANGED notCursor

SpecCursor == CursorInit /\ [][CallFillNpi]_vars

(***************************************************************************)
(* A client of class NPISequence: one cursor, built once, then next() calls *)
(***************************************************************************)
NewSequence(start, end) ==
    /\ npi_seq = None
    /\ npi_seq' = NPISequence(npi_file, start, end)
    /\ UNCHANGED <<npi_file, ncalls, uniform, last>>

CallNext ==
    /\ npi_seq # None
    /\ ncalls < MaxCalls
    /\ LET r == NPISequence_next(npi_seq)
       IN /\ npi_seq' = r.self
          /\ ncalls' = ncalls + 1
          /\ last' = [start |-> npi_seq.start, end |-> npi_seq.end,
                      before |-> npi_seq, out |-> r.out]
    /\ UNCHANGED <<npi_file, uniform>>
    /\ UNCHANGED notCursor

Construct ==
    /\ \E s \in StartArgs, e \in EndArgs : NewSequence(s, e)
    /\ UNCHANGED notCursor

SpecSeq == CursorInit /\ [][Construct \/ CallNext]_vars

(***************************************************************************)
(* generate_unique_prefixed_numbers                                        *)
(* Strings of digits are sequences over 0..9.                              *)
(***************************************************************************)
RECURSIVE Pow10(_)
\* 10**k
Pow10(k) == IF k <= 0 THEN 1 ELSE 10 * Pow10(k - 1)

RECURSIVE Str(_)
\* str(n) of an int n >= 0: its decimal digits
Str(n) == IF n < 10 THEN <<n>> ELSE Str(n \div 10) \o <<n % 10>>

RECURSIVE Zfill(_, _)
\* s.zfill(width): zeros on the left up to width
Zfill(s, width) == IF Len(s) >= width THEN s ELSE Zfill(<<0>> \o s, width)

NumDigits(prefix, length) == length - Len(Str(prefix))
MinValue(prefix, length) == Pow10(NumDigits(prefix, length) - 1)
MaxValue(prefix, length) == Pow10(NumDigits(prefix, length)) - 1

\* line 85
PrefixTooLong(prefix, length) == Len(Str(prefix)) >= length

\* the count test with >= in place of >
CountTooLarge_Inclusive(n, prefix, length) ==
    n >= (MaxValue(prefix, length) - MinValue(prefix, length) + 1)

\* line 92
CountTooLarge(n, prefix, length) ==
    n > (MaxValue(prefix, length) - MinValue(prefix, length) + 1)

\* the loop test with <= in place of <
LoopContinues_Inclusive(h, n) == Cardinality(h) <= n

\* line 97
LoopContinues(h, n) == Cardinality(h) < n

\* lines 98-99: the string added for the drawn number r
Drawn(r, prefix, length) == Str(prefix) \o Zfill(Str(r), NumDigits(prefix, length))

RECURSIVE DigitsValue(_)
\* the number a string of digits spells
DigitsValue(s) == IF s = <<>> THEN 0 ELSE 10 * DigitsValue(SubSeq(s, 1, Len(s) - 1)) + s[Len(s)]

\* Iteration order of a set of str follows the strings' hash values, which
\* vary with the interpreter's per-process hash seed and not with
\* random.seed. The slot of a string under a seed: distinct strings of up to
\* three digits have distinct slots (1009 is prime, and the multiplier is not
\* a multiple of it for the seeds of the model).
Slot(s, seed) == ((DigitsValue(s) + 1) * (37 + 271 * seed)) % 1009

RECURSIVE ListOf(_, _)
\* list(S): the elements of the set S in iteration order
ListOf(S, seed) ==
    IF S = {} THEN <<>>
    ELSE LET x == CHOOSE y \in S : \A z \in S : Slot(y, seed) <= Slot(z, seed)
         IN <<x>> \o ListOf(S \ {x}, seed)

\* lines 84-95: validation, then the empty set
GenValidate ==
    /\ gen_pc = "called"
    /\ gen_pc' = IF \/ PrefixTooLong(gen_args.prefix, gen_args.length)
                    \/ CountTooLarge(gen_args.num_to_generate, gen_args.prefix, gen_args.length)
                 THEN "ValueError" ELSE "loop"
    /\ hashes' = {}
    /\ UNCHANGED <<gen_args, gen_out, drawn, hash_seed>>
    /\ UNCHANGED notGen

\* lines 97-99: one iteration of the loop
GenDraw ==
    /\ gen_pc = "loop"
    /\ LoopContinues(hashes, gen_args.num_to_generate)
    /\ \E r \in MinValue(gen_args.prefix, gen_args.length)..MaxValue(gen_args.prefix, gen_args.length) :
          hashes' = hashes \cup {Drawn(r, gen_args.prefix, gen_args.length)}
    /\ drawn' = TRUE
    /\ UNCHANGED <<gen_pc, gen_args, gen_out, hash_seed>>
    /\ UNCHANGED notGen

\* line 101: the loop is left and list(hashes) returned
GenReturn ==
    /\ gen_pc = "loop"
    /\ ~LoopContinues(hashes, gen_args.num_to_generate)
    /\ gen_out' = ListOf(hashes, hash_seed)
    /\ gen_pc' = "returned"
    /\ UNCHANGED <<gen_args, hashes, drawn, hash_seed>>
    /\ UNCHANGED notGen

\* the calls made: every count with a one-digit suffix, the counts up to
\* MaxWideCount and beyond the limit with a two-digit suffix, and prefixes
\* as long as the length or longer
GenInputs ==
    ((-1..MaxCount) \X {2} \X {1, 2})
        \cup ((0..MaxWideCount) \X {12} \X {2, 3})
        \cup ((0..MaxWideCount) \X {2} \X {3})
        \cup ({91, 100, 101} \X {7} \X {3})

GenInit ==
    /\ npi_file = <<>> /\ npi_seq = None /\ ncalls = 0 /\ uniform = TRUE /\ last = NoCall
    /\ MainIdle
    /\ FuzzyIdle
    /\ RunsIdle
    /\ LuhnIdle
    /\ gen_pc = "called"
    /\ \E a \in GenInputs :
          gen_args = [num_to_generate |-> a[1], prefix |-> a[2], length |-> a[3]]
    /\ hashes = {}
    /\ gen_out = <<>>
    /\ drawn = FALSE
    /\ hash_seed \in 0..MaxHashSeed

SpecGen == GenInit /\ [][GenValidate \/ GenDraw \/ GenReturn]_vars

(***************************************************************************)
(* main                                                                    *)
(***************************************************************************)
\* a field of a record that holds None (written as a blank field)
Null == "None"

\* int(TOTAL_ROWS * rate), the rate given in percent
DupCount(rate_pct) == (TOTAL_ROWS * rate_pct) \div 100

RowIndices == 0..(TOTAL_ROWS - 1)

\* random.sample(list(range(TOTAL_ROWS)), k): k indices, none twice, in any order
Sample(k) ==
    { s \in [1..k -> RowIndices] : \A i, j \in 1..k : i # j => s[i] # s[j] }

\* the donor list without the exclusion of idx
DonorChoices_WithSelf(idx) == RowIndices

\* lines 276 and 308: [x for x in range(TOTAL_ROWS) if x != idx]
DonorChoices(idx) == { x \in RowIndices : x # idx }

\* line 300
dup_fields_choices == <<"SSN", "ssn_ein", "State_License_Number", "BANK">>

\* values generate_ssn, generate_ein, generate_state_license and the account
\* and routing digits can produce
SSNs == {"123-45-6789", "234-56-7890"}
EINs == {"12-3456789"}
Licenses == {"CA123456"}
Banks == {"12345678-123456789"}

\* lines 331-389: the records one iteration can build, given the NPI
RecordsWith(npi) ==
    { [NPI |-> npi, Provider_Type |-> "Individual", SSN |-> s, ssn_ein |-> Null,
       State_License_Number |-> l, BANK |-> b] : s \in SSNs, l \in Licenses, b \in Banks }
    \cup
    { [NPI |-> npi, Provider_Type |-> "Organization", SSN |-> Null, ssn_ein |-> e,
       State_License_Number |-> l, BANK |-> b] : e \in EINs, l \in Licenses, b \in Banks }

\* lines 246-263: seeding, the reference list, reference_npi_list.csv
WritePool ==
    /\ pc = "start"
    /\ npi_file' = [i \in 1..REFERENCE_NPI_COUNT |-> Identifier(i)]
    /\ pc' = "fuzzy_sample"
    /\ UNCHANGED <<npi_seq, ncalls, uniform, last>>
    /\ UNCHANGED <<fuzzy_indices, donor_indices, dup_indices, field, fields, records>>
    /\ UNCHANGED notMain

\* lines 270-273
SampleFuzzy ==
    /\ pc = "fuzzy_sample"
    /\ fuzzy_indices' \in Sample(DupCount(FUZZY_DUPLICATE_RATE_PCT))
    /\ donor_indices' = <<>>
    /\ pc' = "fuzzy_donors"
    /\ UNCHANGED <<dup_indices, field, fields, records>>
    /\ UNCHANGED <<cursorVars, notMain>>

\* lines 274-277: one iteration
PickFuzzyDonor ==
    /\ pc = "fuzzy_donors"
    /\ Len(donor_indices) < Len(fuzzy_indices)
    /\ \E donor_idx \in DonorChoices(fuzzy_indices[Len(donor_indices) + 1]) :
          donor_indices' = Append(donor_indices, donor_idx)
    /\ UNCHANGED <<pc, fuzzy_indices, dup_indices, field, fields, records>>
    /\ UNCHANGED <<cursorVars, notMain>>

\* lines 280-297: the loop over the pairs; it binds only base_name, base_email,
\* new_name and new_email, which nothing reads afterwards
FuzzyPairs ==
    /\ pc = "fuzzy_donors"
    /\ Len(donor_indices) = Len(fuzzy_indices)
    /\ pc' = "dup_sample"
    /\ UNCHANGED <<fuzzy_indices, donor_indices, dup_indices, field, fields, records>>
    /\ UNCHANGED <<cursorVars, notMain>>

\* lines 300-305
SampleDup ==
    /\ pc = "dup_sample"
    /\ dup_indices' \in Sample(DupCount(DUPLICATE_RATE_PCT))
    /\ donor_indices' = <<>>
    /\ pc' = "dup_donors"
    /\ UNCHANGED <<fuzzy_indices, field, fields, records>>
    /\ UNCHANGED <<cursorVars, notMain>>

\* lines 306-317: one iteration; both branches of the if are pass
PickDupDonor ==
    /\ pc = "dup_donors"
    /\ Len(donor_indices) < Len(dup_indices)
    /\ \E donor_idx \in DonorChoices(dup_indices[Len(donor_indices) + 1]) :
          donor_indices' = Append(donor_indices, donor_idx)
    /\ \E f \in 1..Len(dup_fields_choices) :
          /\ field' = dup_fields_choices[f]
          /\ fields' = Append(fields, dup_fields_choices[f])
    /\ UNCHANGED <<pc, fuzzy_indices, dup_indices, records>>
    /\ UNCHANGED <<cursorVars, notMain>>

\* lines 323-328
BeginRecords ==
    /\ pc = "dup_donors"
    /\ Len(donor_indices) = Len(dup_indices)
    /\ records' = <<>>
    /\ pc' = "records"
    /\ UNCHANGED <<fuzzy_indices, donor_indices, dup_indices, field, fields>>
    /\ UNCHANGED <<cursorVars, notMain>>

\* lines 330-390: one iteration; fill_npi() raises when the list is used up
GenerateRecord ==
    /\ pc = "records"
    /\ Len(records) < TOTAL_ROWS
    /\ LET r == FillNpi(npi_seq, npi_file, 0, NoEnd)
       IN /\ npi_seq' = r.self
          /\ IF r.out.exc = ""
             THEN /\ records' \in { Append(records, rec) : rec \in RecordsWith(r.out.val) }
                  /\ pc' = pc
             ELSE /\ records' = records
                  /\ pc' = r.out.exc
    /\ UNCHANGED <<npi_file, ncalls, uniform, last>>
    /\ UNCHANGED <<fuzzy_indices, donor_indices, dup_indices, field, fields>>
    /\ UNCHANGED notMain

\* lines 392-408: the data frame is written to synthetic_data_v1.csv
WriteDataset ==
    /\ pc = "records"
    /\ Len(records) = TOTAL_ROWS
    /\ pc' = "done"
    /\ UNCHANGED <<fuzzy_indices, donor_indices, dup_indices, field, fields, records>>
    /\ UNCHANGED <<cursorVars, notMain>>

MainInit ==
    /\ npi_file = <<>> /\ npi_seq = None /\ ncalls = 0 /\ uniform = TRUE /\ last = NoCall
    /\ GenIdle
    /\ FuzzyIdle
    /\ RunsIdle
    /\ LuhnIdle
    /\ pc = "start"
    /\ fuzzy_indices = <<>>
    /\ donor_indices = <<>>
    /\ dup_indices = <<>>
    /\ field = ""
    /\ fields = <<>>
    /\ records = <<>>

MainNext ==
    \/ WritePool \/ SampleFuzzy \/ PickFuzzyDonor \/ FuzzyPairs \/ SampleDup
    \/ PickDupDonor \/ BeginRecords \/ GenerateRecord \/ WriteDataset

SpecMain == MainInit /\ [][MainNext]_vars

(***************************************************************************)
(* The fuzzy duplicates of main (lines 280-297), similar_name,             *)
(* similar_email. A str is a sequence of one-character strings.            *)
(***************************************************************************)
RECURSIVE Without(_, _)
\* s.replace(c, "")
Without(s, c) ==
    IF s = <<>> THEN <<>>
    ELSE (IF Head(s) = c THEN <<>> ELSE <<Head(s)>>) \o Without(Tail(s), c)

\* s.replace(c, d)
Replaced(s, c, d) == [i \in 1..Len(s) |-> IF s[i] = c THEN d ELSE s[i]]

\* c in s
Contains(s, c) == \E i \in 1..Len(s) : s[i] = c

RECURSIVE SplitAcc(_, _, _)
SplitAcc(s, cur, acc) ==
    IF s = <<>> THEN (IF cur = <<>> THEN acc ELSE Append(acc, cur))
    ELSE IF Head(s) = " "
         THEN SplitAcc(Tail(s), <<>>, IF cur = <<>> THEN acc ELSE Append(acc, cur))
         ELSE SplitAcc(Tail(s), Append(cur, Head(s)), acc)

\* s.split(): the tokens between runs of blanks
Split(s) == SplitAcc(s, <<>>, <<>>)

RECURSIVE Join(_)
\* " ".join(tokens)
Join(tokens) ==
    IF tokens = <<>> THEN <<>>
    ELSE IF Len(tokens) = 1 THEN tokens[1]
    ELSE tokens[1] \o <<" ">> \o Join(Tail(tokens))

\* whether similar_name draws random.random(): only when len(tokens) > 2
NameDraws(name) == Len(Split(Without(name, ","))) > 2

\* similar_name(name); low is the outcome of random.random() < 0.5
similar_name(name, low) ==
    LET tokens == Split(Without(name, ","))
    IN IF Len(tokens) > 2 /\ low
       THEN Join(<<tokens[1]>> \o SubSeq(tokens, 3, Len(tokens)))
       ELSE Join(<<(<<tokens[1][1]>> \o tokens[1])>> \o Tail(tokens))

\* the position of the "@" of an email with exactly one
AtSign(email) == CHOOSE i \in 1..Len(email) : email[i] = "@"

\* whether similar_email draws random.random(): only when "." in user
EmailDraws(email) == Contains(SubSeq(email, 1, AtSign(email) - 1), ".")

\* similar_email(email); low is the outcome of random.random() < 0.5
similar_email(email, low) ==
    LET user == SubSeq(email, 1, AtSign(email) - 1)
        domain == SubSeq(email, AtSign(email) + 1, Len(email))
        u == IF Contains(user, ".") /\ low
             THEN Without(user, ".")
             ELSE Replaced(user, ".", "_")
    IN u \o <<"@">> \o domain

RECURSIVE Lcs(_, _)
\* length of a longest common subsequence
Lcs(a, b) ==
    IF a = <<>> \/ b = <<>> THEN 0
    ELSE IF a[Len(a)] = b[Len(b)]
         THEN 1 + Lcs(SubSeq(a, 1, Len(a) - 1), SubSeq(b, 1, Len(b) - 1))
         ELSE LET x == Lcs(SubSeq(a, 1, Len(a) - 1), b)
                  y == Lcs(a, SubSeq(b, 1, Len(b) - 1))
              IN IF x >= y THEN x ELSE y

\* int(round(100 * n / d)) as Python 3 rounds: halves go to the even integer
RoundedPercent(n, d) ==
    LET q == (100 * n) \div d
        r == (100 * n) % d
    IN IF 2 * r > d \/ (2 * r = d /\ q % 2 = 1) THEN q + 1 ELSE q

\* fuzz.ratio(s1, s2): 0 for an empty string, else 100 * 2M/T rounded, M the
\* matched characters and T the characters of both strings
Ratio(s1, s2) ==
    IF Len(s1) = 0 \/ Len(s2) = 0 THEN 0
    ELSE RoundedPercent(2 * Lcs(s1, s2), Len(s1) + Len(s2))

\* the break test without the ratio
Qualifies_AnyDifferent(base, new) == new # base

\* lines 287 and 294: the test under which the loop breaks
Qualifies(base, new) == Ratio(base, new) >= Threshold /\ new # base

\* names fake.name() can return, emails fake.email() can return
Names ==
    { <<"A","l"," ","B","o">>,
      <<"A","l"," ","B">>,
      <<"A","n","n"," ","B"," ","L","e","e">>,
      <<"M","r","."," ","A","n","n","a","b","e","l"," ","L","e","e","s","o","n">> }
Emails ==
    { <<"a","l",".","b","o","@","x",".","i","o">>,
      <<"a",".","b","@","c",".","d">>,
      <<"a","l","b","o","@","x",".","i","o">>,
      <<"a",".","b",".","c","@","d",".","e">> }

\* lines 280-282: the next pair; base_name and base_email are drawn
BeginPair ==
    /\ fz_pc \in {"pair", "pair_done"}
    /\ pairs < MaxPairs
    /\ pairs' = pairs + 1
    /\ base_name' \in Names
    /\ base_email' \in Emails
    /\ attempt' = 0
    /\ fz_pc' = "name_loop"
    /\ UNCHANGED <<new_name, new_email>>
    /\ UNCHANGED notFuzzy

\* lines 285-288: one iteration of the name loop
NameAttempt ==
    /\ fz_pc = "name_loop"
    /\ attempt < MaxAttempts
    /\ \E low \in (IF NameDraws(base_name) THEN BOOLEAN ELSE {FALSE}) :
          new_name' = similar_name(base_name, low)
    /\ IF Qualifies(base_name, new_name')
       THEN fz_pc' = "email_loop" /\ attempt' = 0
       ELSE fz_pc' = fz_pc /\ attempt' = attempt + 1
    /\ UNCHANGED <<base_name, base_email, new_email, pairs>>
    /\ UNCHANGED notFuzzy

\* lines 289-290: the else of the name loop
NameFallback ==
    /\ fz_pc = "name_loop"
    /\ attempt = MaxAttempts
    /\ new_name' = base_name
    /\ fz_pc' = "email_loop"
    /\ attempt' = 0
    /\ UNCHANGED <<base_name, base_email, new_email, pairs>>
    /\ UNCHANGED notFuzzy

\* lines 292-295: one iteration of the email loop
EmailAttempt ==
    /\ fz_pc = "email_loop"
    /\ attempt < MaxAttempts
    /\ \E low \in (IF EmailDraws(base_email) THEN BOOLEAN ELSE {FALSE}) :
          new_email' = similar_email(base_email, low)
    /\ IF Qualifies(base_email, new_email')
       THEN fz_pc' = "pair_done" /\ attempt' = 0
       ELSE fz_pc' = fz_pc /\ attempt' = attempt + 1
    /\ UNCHANGED <<base_name, new_name, base_email, pairs>>
    /\ UNCHANGED notFuzzy

\* lines 296-297: the else of the email loop
EmailFallback ==
    /\ fz_pc = "email_loop"
    /\ attempt = MaxAttempts
    /\ new_email' = base_email
    /\ fz_pc' = "pair_done"
    /\ attempt' = 0
    /\ UNCHANGED <<base_name, new_name, base_email, pairs>>
    /\ UNCHANGED notFuzzy

FuzzyInit ==
    /\ npi_file = <<>> /\ npi_seq = None /\ ncalls = 0 /\ uniform = TRUE /\ last = NoCall
    /\ GenIdle
    /\ MainIdle
    /\ RunsIdle
    /\ LuhnIdle
    /\ fz_pc = "pair"
    /\ base_name = <<>>
    /\ new_name = <<>>
    /\ base_email = <<>>
    /\ new_email = <<>>
    /\ attempt = 0
    /\ pairs = 0

FuzzyNext ==
    BeginPair \/ NameAttempt \/ NameFallback \/ EmailAttempt \/ EmailFallback

SpecFuzzy == FuzzyInit /\ [][FuzzyNext]_vars

(***************************************************************************)
(* Two independent runs of main with the same seed. The seeded generators  *)
(* (random, numpy.random, Faker) are one deterministic stream: a state,    *)
(* set by the seed, that each draw advances.                               *)
(***************************************************************************)
\* the generator's state after one more draw (full period modulo 64)
RngNext(s) == (21 * s + 7) % 64

\* random.seed(seed)
RngSeed(seed) == seed % 64

\* random.randint(lo, hi) read off the state s reached by the draw
RandInt(s, lo, hi) == lo + (s % (hi - lo + 1))

\* date.today() of a process started on day d; dates are day numbers
Today(d) == d

\* lines 246-249: the generators are seeded
RunSeed(r) ==
    /\ runs[r].pc = "start"
    /\ runs' = [runs EXCEPT ![r].pc = "pool", ![r].rng = RngSeed(SEED)]
    /\ UNCHANGED notRuns

\* line 253, generate_unique_prefixed_numbers(REFERENCE_NPI_COUNT, 2, 2): one
\* iteration of its loop (the length scaled down from 10)
RunDraw(r) ==
    /\ runs[r].pc = "pool"
    /\ LoopContinues(runs[r].hashes, REFERENCE_NPI_COUNT)
    /\ LET s == RngNext(runs[r].rng)
       IN runs' = [runs EXCEPT
              ![r].rng = s,
              ![r].hashes = @ \cup {Drawn(RandInt(s, MinValue(2, 2), MaxValue(2, 2)), 2, 2)}]
    /\ UNCHANGED notRuns

\* lines 101 and 253-263: list(hashes) is written to reference_npi_list.csv
RunWritePool(r) ==
    /\ runs[r].pc = "pool"
    /\ ~LoopContinues(runs[r].hashes, REFERENCE_NPI_COUNT)
    /\ runs' = [runs EXCEPT
           ![r].pc = "records",
           ![r].pool_file = ListOf(runs[r].hashes, runs[r].hash_seed)]
    /\ UNCHANGED notRuns

\* lines 330-390: one record; the type and the expiration offset are drawn,
\* the NPI is the next of the file, Last_Updated is date.today()
RunRecord(r) ==
    /\ runs[r].pc = "records"
    /\ Len(runs[r].records) < TOTAL_ROWS
    /\ Len(runs[r].records) < Len(runs[r].pool_file)
    /\ LET s1 == RngNext(runs[r].rng)
           s2 == RngNext(s1)
           rec == [NPI |-> runs[r].pool_file[Len(runs[r].records) + 1],
                   Provider_Type |-> IF RandInt(s1, 0, 99) < 70
                                     THEN "Individual" ELSE "Organization",
                   License_Expiration |-> Today(runs[r].day) + RandInt(s2, 30, 365 * 6),
                   Last_Updated |-> Today(runs[r].day)]
       IN runs' = [runs EXCEPT ![r].rng = s2, ![r].records = Append(@, rec)]
    /\ UNCHANGED notRuns

\* lines 392-408: the records are written to synthetic_data_v1.csv
RunWriteDataset(r) ==
    /\ runs[r].pc = "records"
    /\ ~(Len(runs[r].records) < TOTAL_ROWS /\ Len(runs[r].records) < Len(runs[r].pool_file))
    /\ runs' = [runs EXCEPT ![r].pc = "done", ![r].dataset = runs[r].records]
    /\ UNCHANGED notRuns

\* a process about to run main, in an environment: the day it is started on
\* and the hash seed the interpreter picked
NewRun(day, hseed) ==
    [pc |-> "start", rng |-> 0, day |-> day, hash_seed |-> hseed, hashes |-> {},
     pool_file |-> <<>>, records |-> <<>>, dataset |-> <<>>]

RunsInit ==
    /\ npi_file = <<>> /\ npi_seq = None /\ ncalls = 0 /\ uniform = TRUE /\ last = NoCall
    /\ GenIdle
    /\ MainIdle
    /\ FuzzyIdle
    /\ LuhnIdle
    /\ \E d1, d2 \in 0..MaxDayOffset, h1, h2 \in 0..MaxHashSeed :
          runs = <<NewRun(d1, h1), NewRun(d2, h2)>>

RunsNext ==
    \E r \in {1, 2} :
        RunSeed(r) \/ RunDraw(r) \/ RunWritePool(r) \/ RunRecord(r) \/ RunWriteDataset(r)

SpecRuns == RunsInit /\ [][RunsNext]_vars

(***************************************************************************)
(* luhn_checksum                                                           *)
(***************************************************************************)
\* lines 61 and 64: parity = len(digits) % 2; i % 2 == parity
Doubled(i, n) == i % 2 = n % 2

\* lines 64-67: the value added to total for the digit d at index i
Weighted(d, i, n) ==
    IF Doubled(i, n)
    THEN (IF 2 * d > 9 THEN 2 * d - 9 ELSE 2 * d)
    ELSE d

\* lines 60-62: digits, parity, total = 0
LuhnBegin ==
    /\ luhn_pc = "called"
    /\ luhn_i' = 0
    /\ total' = 0
    /\ luhn_pc' = "loop"
    /\ UNCHANGED <<num_str, luhn_out>>
    /\ UNCHANGED notLuhn

\* lines 63-68: one iteration (index i is element i+1 here)
LuhnStep ==
    /\ luhn_pc = "loop"
    /\ luhn_i < Len(num_str)
    /\ total' = total + Weighted(num_str[luhn_i + 1], luhn_i, Len(num_str))
    /\ luhn_i' = luhn_i + 1
    /\ UNCHANGED <<luhn_pc, num_str, luhn_out>>
    /\ UNCHANGED notLuhn

\* line 69
LuhnReturn ==
    /\ luhn_pc = "loop"
    /\ luhn_i = Len(num_str)
    /\ luhn_out' = Str((10 - (total % 10)) % 10)
    /\ luhn_pc' = "returned"
    /\ UNCHANGED <<num_str, luhn_i, total>>
    /\ UNCHANGED notLuhn

\* the non-empty strings of digits of up to MaxLuhnLen characters
DigitStrings == UNION { [1..n -> 0..9] : n \in 1..MaxLuhnLen }

LuhnInit ==
    /\ npi_file = <<>> /\ npi_seq = None /\ ncalls = 0 /\ uniform = TRUE /\ last = NoCall
    /\ GenIdle
    /\ MainIdle
    /\ FuzzyIdle
    /\ RunsIdle
    /\ luhn_pc = "called"
    /\ num_str \in DigitStrings
    /\ luhn_i = 0
    /\ total = 0
    /\ luhn_out = <<>>

SpecLuhn == LuhnInit /\ [][LuhnBegin \/ LuhnStep \/ LuhnReturn]_vars

(***************************************************************************)
(* Claims about the cursor                                                 *)
(***************************************************************************)
\* the exclusive end of the range [start, end) over the reference list
EffectiveEnd(end) == IF end = NoEnd \/ end > Len(npi_file) THEN Len(npi_file) ELSE end

\* C1: in a sequence of fill_npi calls that all pass the same (start, end), the
\* k-th call returns pool element start+k-1 and, once the range is used up,
\* raises IndexError; no element is handed out twice, also when end exceeds
\* the pool's length.
C1_SameArgsNeverReuse ==
    (uniform /\ ncalls >= 1) =>
        last.out = IF last.start + ncalls - 1 < EffectiveEnd(last.end)
                   THEN Returned(npi_file[last.start + ncalls])
                   ELSE Raised("IndexError")

\* C2: for a cursor with start <= end (end clamped to the pool length), the
\* n-th next() returns pool[start+n-1] for n <= end-start, and every later
\* call raises IndexError.
C2_NthNextReturnsNthOfSlice ==
    (npi_seq # None /\ npi_seq.start <= npi_seq.end /\ ncalls >= 1) =>
        /\ npi_seq.end <= Len(npi_file)
        /\ last.out = IF ncalls <= npi_seq.end - npi_seq.start
                      THEN Returned(npi_file[npi_seq.start + ncalls])
                      ELSE Raised("IndexError")

\* C2 witness: a range of at least two elements has been handed out in full
\* and the call after it raised.
C2_Witness ==
    /\ npi_seq # None
    /\ npi_seq.end - npi_seq.start >= 2
    /\ ncalls = npi_seq.end - npi_seq.start + 1
    /\ last.out = Raised("IndexError")

\* the call recorded in last asked for a range other than the active cursor's
Rebinds ==
    /\ ncalls >= 1
    /\ last.before # None
    /\ \/ last.before.start # last.start
       \/ last.before.end # EffectiveEnd(last.end)

\* C3: a fill_npi call for a range other than the active cursor's rebuilds
\* the cursor: it returns pool[start] of the new range, whatever position the
\* old cursor had reached (IndexError when the new range is empty).
C3_RebindStartsAtNewStart ==
    Rebinds =>
        /\ npi_seq.start = last.start
        /\ npi_seq.end = EffectiveEnd(last.end)
        /\ last.out = IF last.start < EffectiveEnd(last.end)
                      THEN Returned(npi_file[last.start + 1])
                      ELSE Raised("IndexError")

\* C3 witness: the old cursor over [0,2) was used up, then [1,3) was asked
\* for, and the call returned the element at index 1.
C3_Witness ==
    /\ Rebinds
    /\ last.before.start = 0 /\ last.before.end = 2 /\ last.before.index = 2
    /\ last.start = 1 /\ last.end = 3
    /\ last.out = Returned(npi_file[2])

(***************************************************************************)
(* Claims about generate_unique_prefixed_numbers                           *)
(***************************************************************************)
IsDigitString(s) == \A i \in 1..Len(s) : s[i] \in 0..9
StartsWith(s, p) == Len(s) >= Len(p) /\ SubSeq(s, 1, Len(p)) = p

\* C4: an accepted call with N >= 0 returns exactly N strings, pairwise
\* distinct, each of `length` digits and starting with str(prefix).
C4_ReturnsNDistinctPrefixed ==
    (gen_pc = "returned" /\ gen_args.num_to_generate >= 0) =>
        /\ Len(gen_out) = gen_args.num_to_generate
        /\ \A i, j \in 1..Len(gen_out) : i # j => gen_out[i] # gen_out[j]
        /\ \A i \in 1..Len(gen_out) :
              /\ IsDigitString(gen_out[i])
              /\ Len(gen_out[i]) = gen_args.length
              /\ StartsWith(gen_out[i], Str(gen_args.prefix))

\* C4 witness: two strings with a two-digit suffix were returned.
C4_Witness ==
    /\ gen_pc = "returned"
    /\ gen_args.num_to_generate = 2
    /\ NumDigits(gen_args.prefix, gen_args.length) = 2
    /\ Len(gen_out) = 2

\* the call's prefix passed line 85, and lines 84-95 have run
Validated == gen_pc # "called" /\ ~PrefixTooLong(gen_args.prefix, gen_args.length)

Row(idx) == records[idx + 1]

\* C6: after main has finished, every exact-field recipient row carries its
\* donor row's value in the field chosen for it.
C6_RecipientsCarryDonorValue ==
    pc = "done" =>
        \A k \in 1..Len(dup_indices) :
            Row(dup_indices[k])[fields[k]] = Row(donor_indices[k])[fields[k]]

\* C7: whenever ssn_ein was chosen for a recipient, the donor row's ssn_ein
\* is populated.
C7_TaxIdDonorPopulated ==
    pc = "done" =>
        \A k \in 1..Len(dup_indices) :
            fields[k] = "ssn_ein" => Row(donor_indices[k]).ssn_ein # Null

IsSubset(indices, count) ==
    /\ Len(indices) = count
    /\ \A k \in 1..Len(indices) : indices[k] \in 0..(TOTAL_ROWS - 1)
    /\ \A i, j \in 1..Len(indices) : i # j => indices[i] # indices[j]

\* the donors picked so far pair up with the recipients, none with itself
DonorsPairWith(indices) ==
    /\ Len(donor_indices) <= Len(indices)
    /\ \A k \in 1..Len(donor_indices) :
          /\ donor_indices[k] \in 0..(TOTAL_ROWS - 1)
          /\ donor_indices[k] # indices[k]

\* C10: each duplicate subset is int(TOTAL_ROWS * rate) pairwise distinct row
\* indices, and each recipient gets exactly one donor index in range that is
\* not the recipient's own.
C10_SubsetsAndDonors ==
    /\ pc \notin {"start", "fuzzy_sample", "idle"} =>
          IsSubset(fuzzy_indices, (TOTAL_ROWS * FUZZY_DUPLICATE_RATE_PCT) \div 100)
    /\ pc = "fuzzy_donors" => DonorsPairWith(fuzzy_indices)
    /\ pc = "dup_sample" =>
          DonorsPairWith(fuzzy_indices) /\ Len(donor_indices) = Len(fuzzy_indices)
    /\ pc \in {"dup_donors", "records", "done"} =>
          /\ IsSubset(dup_indices, (TOTAL_ROWS * DUPLICATE_RATE_PCT) \div 100)
          /\ DonorsPairWith(dup_indices)
    /\ pc \in {"records", "done"} => Len(donor_indices) = Len(dup_indices)

\* C10 witness: main has finished with two exact-field recipients, each paired
\* with a donor, after two fuzzy recipients were paired.
C10_Witness ==
    /\ pc = "done"
    /\ Len(fuzzy_indices) = 2
    /\ Len(dup_indices) = 2
    /\ Len(donor_indices) = 2
    /\ donor_indices[1] = dup_indices[2]

(***************************************************************************)
(* Claims about the fuzzy duplicates                                       *)
(***************************************************************************)
\* C8: once a retry loop is over, its value is the original (fallback) or
\* differs from the original with similarity >= 90.
C8_FuzzyPairSimilarOrEqual ==
    /\ fz_pc \in {"email_loop", "pair_done"} =>
          \/ new_name = base_name
          \/ (new_name # base_name /\ Ratio(base_name, new_name) >= 90)
    /\ fz_pc = "pair_done" =>
          \/ new_email = base_email
          \/ (new_email # base_email /\ Ratio(base_email, new_email) >= 90)

\* C8 witness: a pair is done whose name went through failed attempts to a
\* qualifying mutation and whose email fell back to the original after ten
\* attempts that changed it.
C8_Witness ==
    /\ fz_pc = "pair_done"
    /\ new_name # base_name
    /\ Len(Split(base_name)) > 2
    /\ new_email = base_email
    /\ Contains(SubSeq(base_email, 1, AtSign(base_email) - 1), ".")

(***************************************************************************)
(* Claims about two runs                                                   *)
(***************************************************************************)
\* C9: two finished runs of main with the same seed have written identical
\* identifier pool files and identical dataset files.
C9_SameSeedSameOutput ==
    (runs # <<>> /\ runs[1].pc = "done" /\ runs[2].pc = "done") =>
        /\ runs[1].pool_file = runs[2].pool_file
        /\ runs[1].dataset = runs[2].dataset

(***************************************************************************)
(* Claims about luhn_checksum                                              *)
(***************************************************************************)
RECURSIVE LuhnSum(_, _)
\* the Luhn sum of a full number s: its digits from the right, position k
\* (k = 1 the last digit), every second one (k even) doubled, 9 taken off a
\* doubled digit above 9
LuhnSum(s, k) ==
    IF s = <<>> THEN 0
    ELSE LET d == s[Len(s)]
             w == IF k % 2 = 0 THEN (IF 2 * d > 9 THEN 2 * d - 9 ELSE 2 * d) ELSE d
         IN w + LuhnSum(SubSeq(s, 1, Len(s) - 1), k + 1)

\* the standard Luhn mod-10 validation of a number that ends in its check digit
LuhnValid(s) == LuhnSum(s, 1) % 10 = 0

\* C11: for every non-empty digit string s, luhn_checksum(s) is one digit
\* '0'..'9' and s + luhn_checksum(s) passes the standard Luhn validation.
C11_CheckDigitValidates ==
    luhn_pc = "returned" =>
        /\ Len(luhn_out) = 1
        /\ luhn_out[1] \in 0..9
        /\ LuhnValid(num_str \o luhn_out)

====
